---- MODULE Spec2Model ----
(***************************************************************************)
(* A model of the simulation core of the agar.io clone: src/main.js (world *)
(* state, per-tick collision resolution, player split and merge) and       *)
(* src/unnamed/part_000 (bot steering and bot split).                      *)
(*                                                                         *)
(* Conventions of the model.                                               *)
(*  - All entities lie on one horizontal line (equal y), so every          *)
(*    direction is +1 or -1 and Math.hypot reduces to |dx|.  Positions and *)
(*    velocities are whole pixels.                                         *)
(*  - A mass is a JavaScript number.  It is kept as an exact dyadic        *)
(*    rational [n, e] standing for n / 2^e, so that halving is exact as it *)
(*    is for an IEEE double.                                               *)
(*  - A radius is kept as its square (field radius2); the overlap test     *)
(*    d < rA + rB is decided exactly on the squares.                       *)
(*  - JavaScript runs each handler to completion.  A handler is stepped    *)
(*    through by pc, one loop iteration per step; another handler can      *)
(*    start only when pc = "idle".                                         *)
(*  - ev is a history variable: the name of the step just taken, the       *)
(*    bodies it examined and the collections as they were before it.      *)
(***************************************************************************)
EXTENDS Integers, Sequences, FiniteSets, TLC

VARIABLES now, gameOver, mouseDX, foods, aiCells, playerCells, hexagons,
          rainbowEffects, pc, i, j, spawned, inputs, ev

vars == <<now, gameOver, mouseDX, foods, aiCells, playerCells, hexagons,
          rainbowEffects, pc, i, j, spawned, inputs, ev>>

(***************************************************************************)
(* Program constants.                                                      *)
(***************************************************************************)
MAP_WIDTH == 5000
MERGE_DELAY == 2500
MAX_CELLS == 16
PlayerMinSplitMass == 80
BotMinSplitMass == 40
PlayerImpulse == 10
BotImpulse == 20
PlayerStartRadius == 20
dangerDistance == 300
preyDistance == 400
bossPreyDistance == 600
splitDistance == 150
EffectLifetime == 1000
ExtrasDelta == 16

(***************************************************************************)
(* Bounds of the model.                                                    *)
(***************************************************************************)
FOOD_COUNT == 1
AI_COUNT == 2
MaxTime == 2600
MaxSpawned == 2
MaxInputs == 2
MaxPrec == 6

(***************************************************************************)
(* Exact dyadic arithmetic for masses.                                     *)
(***************************************************************************)
Max(a, b) == IF a >= b THEN a ELSE b
Min(a, b) == IF a <= b THEN a ELSE b
Abs(a) == IF a >= 0 THEN a ELSE -a

RECURSIVE Norm(_, _)
Norm(n, e) == IF e > 0 /\ n % 2 = 0 THEN Norm(n \div 2, e - 1)
              ELSE [n |-> n, e |-> e]

Num(k) == [n |-> k, e |-> 0]
Scaled(a, e) == a.n * (2 ^ (e - a.e))
Plus(a, b) == LET e == Max(a.e, b.e) IN Norm(Scaled(a, e) + Scaled(b, e), e)
Half(a) == Norm(a.n, a.e + 1)
Times(a, k) == Norm(a.n * k, a.e)
\* p * a < q * b for naturals p, q
LessBy(p, a, q, b) == LET e == Max(a.e, b.e) IN p * Scaled(a, e) < q * Scaled(b, e)
Less(a, b) == LessBy(1, a, 1, b)

\* the whole units of a dyadic number
Whole(a) == a.n \div (2 ^ a.e)

(***************************************************************************)
(* Values drawn by Math.random(), by the clock and by the mouse.           *)
(***************************************************************************)
FoodXs == {2510, 2535}
FoodRadii == {4}
HexXs == {2520}
HexSizes == {20}
\* <<x, radius, vx>> of the normal cells and of the bosses spawnAICell() makes
NormalDraws == {<<2530, 10, -1>>, <<2530, 20, -1>>, <<2600, 20, -1>>}
BossDraws == {<<2530, 50, 1>>}
SteerSpeeds == {2}
Dts == {1000, 2600}
MouseDXs == {-200}

(***************************************************************************)
(* Geometry.                                                               *)
(***************************************************************************)
distance(x1, x2) == Abs(x2 - x1)

clamp(val, lo, hi) == Max(lo, Min(val, hi))

\* d < sqrt(ra2) + sqrt(rb2), decided on whole units of the squared radii:
\* with X = d^2 - ra2 - rb2, the test is X < 0 or X^2 < 4 * ra2 * rb2.
Overlaps(d, ra2, rb2) ==
    LET a == Whole(ra2)
        b == Whole(rb2)
    IN  IF d >= a + b + 1 THEN FALSE
        ELSE LET X == d * d - a - b
             IN  X < 0 \/ (X < a + b /\ X * X < 4 * a * b)

\* the least whole number r with r * r >= r2 (the radius rounded up), found
\* by bisection of lo < r <= hi
RECURSIVE CeilSqrtIn(_, _, _)
CeilSqrtIn(lo, hi, r2) ==
    IF hi - lo <= 1 THEN hi
    ELSE LET mid == (lo + hi) \div 2
         IN  IF Less(Num(mid * mid), r2) THEN CeilSqrtIn(mid, hi, r2)
             ELSE CeilSqrtIn(lo, mid, r2)
CeilRadius(r2) == IF r2.n = 0 THEN 0 ELSE CeilSqrtIn(0, 256, r2)

(***************************************************************************)
(* Entities.                                                               *)
(***************************************************************************)
Cell(x, radius2, isPlayer, t) ==
    [x |-> x, radius2 |-> radius2, mass |-> radius2, vx |-> 0, extraVX |-> 0,
     isPlayer |-> isPlayer, isBoss |-> FALSE, lastSplitTime |-> t]

Food(x, radius) == [x |-> x, radius |-> radius]

RotatingHexagon(x, size) == [x |-> x, size |-> size, massBonus |-> size * size]

RainbowEffect(x) == [x |-> x, lifetime |-> EffectLifetime]

\* a grow that adds the mass and leaves the radius as it was
growKeepsRadius(cell, amount) ==
    [cell EXCEPT !.mass = Plus(cell.mass, amount)]

grow(cell, amount) ==
    LET m == Plus(cell.mass, amount)
    IN  [cell EXCEPT !.mass = m, !.radius2 = m]

NoCell == Cell(0, Num(0), FALSE, 0)
NoFood == Food(0, 0)

\* the history record of a step: its name, the entities it examined, and the
\* loop indices, the clock and the collections as they were before it acted
EvX(op, a, b, f, n, flag) ==
    [op |-> op, a |-> a, b |-> b, f |-> f, n |-> n, flag |-> flag,
     i |-> i, j |-> j, t |-> now, gameOver |-> gameOver,
     players |-> playerCells, ais |-> aiCells, foods |-> foods,
     hexagons |-> hexagons, effects |-> rainbowEffects]
Ev(op, a, b, f) == EvX(op, a, b, f, 0, FALSE)

\* a removal that drops the last element instead of element k
SplicePop(s, k) == SubSeq(s, 1, Len(s) - 1)

\* splice(k, 1)
Splice(s, k) == SubSeq(s, 1, k - 1) \o SubSeq(s, k + 1, Len(s))

(***************************************************************************)
(* Spawning.                                                               *)
(***************************************************************************)
NormalAI(x, r, v, t) == [Cell(x, Num(r * r), FALSE, t) EXCEPT !.vx = v]
BossAI(x, r, v, t) == [Cell(x, Num(r * r), FALSE, t) EXCEPT !.vx = v, !.isBoss = TRUE]

\* the cells spawnAICell() can push at time t
spawnAICell(t) ==
    {BossAI(d[1], d[2], d[3], t) : d \in BossDraws}
    \cup {NormalAI(d[1], d[2], d[3], t) : d \in NormalDraws}

\* a spawn that pushes nothing
PushAIDropped(cells, new) == cells

\* aiCells.push(boss), aiCells.push(ai)
PushAI(cells, new) == Append(cells, new)

\* the pellets spawnFood() can push
NewFoods == {Food(x, r) : x \in FoodXs, r \in FoodRadii}

\* the structures spawnHexagon() can push
spawnHexagon == {RotatingHexagon(x, s) : x \in HexXs, s \in HexSizes}

\* a start that pushes the player cell twice
initPlayerKeepsList(t) ==
    LET cell == Cell(MAP_WIDTH \div 2, Num(PlayerStartRadius * PlayerStartRadius), TRUE, t)
    IN  << cell, cell >>

initPlayer(t) == << Cell(MAP_WIDTH \div 2, Num(PlayerStartRadius * PlayerStartRadius), TRUE, t) >>

(***************************************************************************)
(* startGame() at load: gameOver = false, initFoods, initAICells,          *)
(* initPlayer.                                                             *)
(***************************************************************************)
Init ==
    /\ now = 0
    /\ gameOver = FALSE
    /\ mouseDX = 0
    /\ foods \in [1..FOOD_COUNT -> NewFoods]
    /\ aiCells \in [1..AI_COUNT -> spawnAICell(0)]
    /\ playerCells = initPlayer(0)
    /\ hexagons = << >>
    /\ rainbowEffects = << >>
    /\ pc = "idle"
    /\ i = 0
    /\ j = 0
    /\ spawned = 0
    /\ inputs = 0
    /\ ev = [op |-> "startGame", a |-> NoCell, b |-> NoCell, f |-> NoFood,
             n |-> 0, flag |-> FALSE, i |-> 0, j |-> 0, t |-> 0,
             gameOver |-> FALSE, players |-> << >>, ais |-> << >>,
             foods |-> << >>, hexagons |-> << >>, effects |-> << >>]

\* the precision cap: a handler starts only while every mass has at most
\* MaxPrec binary places
PrecOk ==
    /\ \A k \in 1..Len(playerCells) : playerCells[k].mass.e <= MaxPrec
    /\ \A k \in 1..Len(aiCells) : aiCells[k].mass.e <= MaxPrec

(***************************************************************************)
(* mousemove: the pointer's offset from the canvas centre.                 *)
(***************************************************************************)
MouseMove ==
    /\ pc = "idle"
    /\ inputs < MaxInputs
    /\ inputs' = inputs + 1
    /\ \E m \in MouseDXs : mouseDX' = m /\ mouseDX # m
    /\ ev' = Ev("mousemove", NoCell, NoCell, NoFood)
    /\ UNCHANGED <<now, gameOver, foods, aiCells, playerCells, hexagons,
                   rainbowEffects, pc, i, j, spawned>>

(***************************************************************************)
(* splitPlayerCells().  i walks cellsToSplit, the first j cells of         *)
(* playerCells (the snapshot taken on entry; the loop only appends).       *)
(***************************************************************************)
RECURSIVE SumX(_, _)
SumX(s, k) == IF k = 0 THEN 0 ELSE s[k].x + SumX(s, k - 1)

\* getPlayerCenter().x; the canvas centre itself when there is no cell,
\* which leaves the target at the pointer offset
getPlayerCenter(cells) ==
    IF Len(cells) = 0 THEN 0 ELSE SumX(cells, Len(cells)) \div Len(cells)

\* Math.cos(Math.atan2(0, dx)): atan2(0, 0) is 0
Dir(dx) == IF dx >= 0 THEN 1 ELSE -1

SplitMass(m) == Half(m)

\* a split that forgets to give the parent its halved mass
SplitParentKeepsMass(cell, dir, impulse, t) ==
    [cell EXCEPT !.lastSplitTime = t, !.extraVX = @ - dir * (impulse \div 2)]

\* the body left behind by a split at time t: halved, stamped, pushed back by
\* impulse / 2
SplitParent(cell, dir, impulse, t) ==
    [cell EXCEPT !.mass = SplitMass(cell.mass), !.radius2 = SplitMass(cell.mass),
                 !.lastSplitTime = t, !.extraVX = @ - dir * (impulse \div 2)]

\* the body a split at time t creates: new Cell(x, y, radius, color, isPlayer)
\* at the parent, given newMass, stamped, and thrown forward by impulse
SplitChild(parent, newMass, dir, impulse, t) ==
    [Cell(parent.x, parent.radius2, parent.isPlayer, t) EXCEPT
        !.mass = newMass, !.lastSplitTime = t,
        !.extraVX = dir * impulse,
        !.x = parent.x + dir * impulse]

SplitKey ==
    /\ pc = "idle"
    /\ PrecOk
    /\ inputs < MaxInputs
    /\ inputs' = inputs + 1
    /\ pc' = "split"
    /\ i' = 1
    /\ j' = Len(playerCells)
    /\ ev' = Ev("splitKey", NoCell, NoCell, NoFood)
    /\ UNCHANGED <<now, gameOver, mouseDX, foods, aiCells, playerCells,
                   hexagons, rainbowEffects, spawned>>

\* a threshold as low as splitBot's
SplitTooSmallAsBot(cell) == Less(cell.mass, Num(40))

\* cell.mass < 80
SplitTooSmall(cell) == Less(cell.mass, Num(PlayerMinSplitMass))

\* a limit test that lets one cell too many through
AtMaxCellsOffByOne(n) == n > MAX_CELLS

\* playerCells.length >= MAX_CELLS
AtMaxCells(n) == n >= MAX_CELLS

SplitStep ==
    /\ pc = "split"
    /\ IF i > j \/ AtMaxCells(Len(playerCells))
       THEN /\ pc' = "idle"
            /\ i' = 0
            /\ j' = 0
            /\ ev' = Ev("splitExit", NoCell, NoCell, NoFood)
            /\ UNCHANGED playerCells
       ELSE LET cell == playerCells[i] IN
            IF SplitTooSmall(cell)
            THEN /\ i' = i + 1
                 /\ ev' = Ev("splitCell", cell, NoCell, NoFood)
                 /\ UNCHANGED <<playerCells, pc, j>>
            ELSE LET target == getPlayerCenter(playerCells) + mouseDX
                     dir == Dir(target - cell.x)
                     parent == SplitParent(cell, dir, PlayerImpulse, now)
                     child == SplitChild(parent, SplitMass(cell.mass), dir,
                                         PlayerImpulse, now)
                 IN  /\ playerCells' = Append([playerCells EXCEPT ![i] = parent], child)
                     /\ i' = i + 1
                     /\ ev' = Ev("splitCell", cell, NoCell, NoFood)
                     /\ UNCHANGED <<pc, j>>
    /\ UNCHANGED <<now, gameOver, mouseDX, foods, aiCells, hexagons,
                   rainbowEffects, spawned, inputs>>

(***************************************************************************)
(* updateGame(), first part: Cell.update for every player cell and every   *)
(* AI cell.  The frame starts dt ms after the previous handler.            *)
(***************************************************************************)
\* v * 0.95, in whole pixels
Decay(v) == IF v >= 0 THEN (v * 95) \div 100 ELSE -(((-v) * 95) \div 100)

\* clamp(4 - radius / 20, 1, 4), in whole pixels
PlayerSpeed(radius2) == clamp((80 - CeilRadius(radius2)) \div 20, 1, 4)

UpdatePlayer(cell, target) ==
    LET x1 == cell.x + cell.extraVX
        x2 == x1 + Dir(target - x1) * PlayerSpeed(cell.radius2)
        r == CeilRadius(cell.radius2)
    IN  [cell EXCEPT !.x = clamp(x2, r, MAP_WIDTH - r),
                     !.extraVX = Decay(cell.extraVX)]

UpdateAI(cell) ==
    LET x1 == cell.x + cell.vx + cell.extraVX
        r == CeilRadius(cell.radius2)
    IN  [cell EXCEPT !.x = x1,
                     !.extraVX = Decay(cell.extraVX),
                     !.vx = IF x1 < r \/ x1 + r > MAP_WIDTH THEN -cell.vx ELSE cell.vx]

TickStart ==
    /\ pc = "idle"
    /\ ~gameOver
    /\ PrecOk
    /\ \E dt \in Dts :
         /\ now + dt <= MaxTime
         /\ now' = now + dt
    /\ LET target == getPlayerCenter(playerCells) + mouseDX
       IN  playerCells' = [k \in 1..Len(playerCells) |-> UpdatePlayer(playerCells[k], target)]
    /\ aiCells' = [k \in 1..Len(aiCells) |-> UpdateAI(aiCells[k])]
    /\ pc' = "botAI"
    /\ i' = 1
    /\ j' = 0
    /\ ev' = Ev("update", NoCell, NoCell, NoFood)
    /\ UNCHANGED <<gameOver, mouseDX, foods, hexagons, rainbowEffects, spawned,
                   inputs>>

\* the order of the spec's resolver: pellets, hexagons, then body pairs
AfterPhaseHexagonsFirst(p) ==
    CASE p = "botAI" -> "playerFood"
      [] p = "playerFood" -> "aiFood"
      [] p = "aiFood" -> "hexagons"
      [] p = "hexagons" -> "playerAI"
      [] p = "playerAI" -> "aiAI"
      [] p = "aiAI" -> "merge"
      [] p = "merge" -> "extras"

\* the order of the passes of one frame: updateBotAI(), then the loops of
\* updateGame() as they are written, then updateExtras()
AfterPhase(p) ==
    CASE p = "botAI" -> "playerFood"
      [] p = "playerFood" -> "aiFood"
      [] p = "aiFood" -> "playerAI"
      [] p = "playerAI" -> "aiAI"
      [] p = "aiAI" -> "hexagons"
      [] p = "hexagons" -> "merge"
      [] p = "merge" -> "extras"

(***************************************************************************)
(* updateBotAI(): one step per bot of aiCells, bots pushed by splitBot     *)
(* included.                                                               *)
(***************************************************************************)
Sign(v) == IF v > 0 THEN 1 ELSE IF v < 0 THEN -1 ELSE 0

\* a danger test that forgets the 10% margin
DangerNoMargin(bot, op, d) == Less(bot.mass, op.mass) /\ d < dangerDistance

\* op.mass > bot.mass * 1.1 && d < dangerDistance
Danger(bot, op, d) == LessBy(11, bot.mass, 10, op.mass) /\ d < dangerDistance

\* op.mass < bot.mass * 0.9 && d < effectivePreyDistance
Prey(bot, op, d) ==
    /\ LessBy(10, op.mass, 9, bot.mass)
    /\ d < (IF bot.isBoss THEN bossPreyDistance ELSE preyDistance)

\* a split condition that forgets the cooldown
SplitTriggerNoCooldown(bot, op, d, t) ==
    /\ \/ bot.isBoss /\ LessBy(20, op.mass, 9, bot.mass)
       \/ ~bot.isBoss /\ LessBy(3, op.mass, 1, bot.mass)
    /\ d < splitDistance

\* the split condition inside the prey branch
SplitTrigger(bot, op, d, t) ==
    /\ \/ bot.isBoss /\ LessBy(20, op.mass, 9, bot.mass)
       \/ ~bot.isBoss /\ LessBy(3, op.mass, 1, bot.mass)
    /\ d < splitDistance
    /\ t - bot.lastSplitTime > MERGE_DELAY

\* a flee contribution with the wrong sign
FleeTowards(steer, u) == steer + u

\* steerX -= (op.x - bot.x) / d
Flee(steer, u) == steer - u

\* the scan of the opponents from index k on: the summed unit vectors, the
\* number of contributions, and whether splitBot was called (which ends the
\* scan)
RECURSIVE Scan(_, _, _, _, _, _)
Scan(bot, ops, k, steer, count, t) ==
    IF k > Len(ops) THEN [steer |-> steer, count |-> count, split |-> FALSE]
    ELSE LET op == ops[k]
             d == distance(bot.x, op.x)
         IN  IF d = 0 THEN Scan(bot, ops, k + 1, steer, count, t)
             ELSE LET u == Sign(op.x - bot.x)
                      s1 == IF Danger(bot, op, d) THEN Flee(steer, u) ELSE steer
                      c1 == IF Danger(bot, op, d) THEN count + 1 ELSE count
                  IN  IF Prey(bot, op, d)
                      THEN IF SplitTrigger(bot, op, d, t)
                           THEN [steer |-> s1 + u, count |-> c1 + 1, split |-> TRUE]
                           ELSE Scan(bot, ops, k + 1, s1 + u, c1 + 1, t)
                      ELSE Scan(bot, ops, k + 1, s1, c1, t)

\* [...playerCells] followed by every other bot
Opponents(k) == playerCells \o Splice(aiCells, k)

\* a threshold of half the size
BotTooSmallAtHalf(bot) == Less(bot.mass, Num(20))

\* bot.mass < 40
BotTooSmall(bot) == Less(bot.mass, Num(BotMinSplitMass))

\* splitBot(bot, impulse) on aiCells[k] at time t: the new aiCells
splitBot(cells, k, impulse, t) ==
    LET bot == cells[k]
        dir == Dir(bot.vx)
        parent == SplitParent(bot, dir, impulse, t)
    IN  IF BotTooSmall(bot) THEN cells
        ELSE Append([cells EXCEPT ![k] = parent],
                    [SplitChild(parent, SplitMass(bot.mass), dir, impulse, t)
                        EXCEPT !.radius2 = SplitMass(bot.mass)])

\* a steering vector that is summed but not normalised
SteerNotNormalised(steer, speed) == steer * speed

\* the averaged and normalised steering vector, times the speed
Steer(steer, speed) == Sign(steer) * speed

BotAIStep ==
    /\ pc = "botAI"
    /\ IF i > Len(aiCells)
       THEN /\ pc' = AfterPhase(pc)
            /\ i' = 1
            /\ j' = Len(foods)
            /\ ev' = Ev("botAIDone", NoCell, NoCell, NoFood)
            /\ UNCHANGED aiCells
       ELSE LET bot == aiCells[i]
                res == Scan(bot, Opponents(i), 1, 0, 0, now)
                cells == IF res.split THEN splitBot(aiCells, i, BotImpulse, now)
                         ELSE aiCells
            IN  /\ IF res.count > 0
                   THEN \E speed \in SteerSpeeds :
                          aiCells' = [cells EXCEPT ![i].vx = Steer(res.steer, speed)]
                   ELSE aiCells' = cells
                /\ i' = i + 1
                /\ ev' = EvX("botAI", bot, NoCell, NoFood, res.count, res.split)
                /\ UNCHANGED <<pc, j>>
    /\ UNCHANGED <<now, gameOver, mouseDX, foods, playerCells, hexagons,
                   rainbowEffects, spawned, inputs>>

(***************************************************************************)
(* updateGame(), collisions of cells with food.  i is the cell, j the      *)
(* pellet, scanned from the last one down.                                 *)
(***************************************************************************)
\* a gain of the whole squared radius
FoodGainWhole(f) == Num(f.radius * f.radius)

\* Math.pow(f.radius, 2) * 0.5
FoodGain(f) == Half(Num(f.radius * f.radius))

EatsFood(cell, f) ==
    Overlaps(distance(cell.x, f.x), cell.radius2, Num(f.radius * f.radius))

\* foods.splice(j, 1); spawnFood(): a hexagon or a pellet is pushed
SpawnFoodAfterSplice(k) ==
    \/ /\ \E h \in spawnHexagon : hexagons' = Append(hexagons, h)
       /\ foods' = Splice(foods, k)
    \/ /\ \E f \in NewFoods : foods' = Append(Splice(foods, k), f)
       /\ UNCHANGED hexagons

PlayerFoodStep ==
    /\ pc = "playerFood"
    /\ IF i > Len(playerCells)
       THEN /\ pc' = AfterPhase(pc)
            /\ i' = 1
            /\ j' = Len(foods)
            /\ ev' = Ev("playerFoodDone", NoCell, NoCell, NoFood)
            /\ UNCHANGED <<playerCells, foods, hexagons>>
       ELSE IF j < 1
       THEN /\ i' = i + 1
            /\ j' = Len(foods)
            /\ ev' = Ev("playerFoodNext", NoCell, NoCell, NoFood)
            /\ UNCHANGED <<playerCells, foods, hexagons, pc>>
       ELSE LET cell == playerCells[i]
                f == foods[j]
            IN  /\ IF EatsFood(cell, f)
                   THEN /\ playerCells' = [playerCells EXCEPT ![i] = grow(cell, FoodGain(f))]
                        /\ SpawnFoodAfterSplice(j)
                   ELSE UNCHANGED <<playerCells, foods, hexagons>>
                /\ j' = j - 1
                /\ ev' = Ev("playerFood", cell, NoCell, f)
                /\ UNCHANGED <<pc, i>>
    /\ UNCHANGED <<now, gameOver, mouseDX, aiCells, rainbowEffects, spawned, inputs>>

AIFoodStep ==
    /\ pc = "aiFood"
    /\ IF i > Len(aiCells)
       THEN /\ pc' = AfterPhase(pc)
            /\ i' = Len(aiCells)
            /\ j' = Len(playerCells)
            /\ ev' = Ev("aiFoodDone", NoCell, NoCell, NoFood)
            /\ UNCHANGED <<aiCells, foods, hexagons>>
       ELSE IF j < 1
       THEN /\ i' = i + 1
            /\ j' = Len(foods)
            /\ ev' = Ev("aiFoodNext", NoCell, NoCell, NoFood)
            /\ UNCHANGED <<aiCells, foods, hexagons, pc>>
       ELSE LET ai == aiCells[i]
                f == foods[j]
            IN  /\ IF EatsFood(ai, f)
                   THEN /\ aiCells' = [aiCells EXCEPT ![i] = grow(ai, FoodGain(f))]
                        /\ SpawnFoodAfterSplice(j)
                   ELSE UNCHANGED <<aiCells, foods, hexagons>>
                /\ j' = j - 1
                /\ ev' = Ev("aiFood", ai, NoCell, f)
                /\ UNCHANGED <<pc, i>>
    /\ UNCHANGED <<now, gameOver, mouseDX, playerCells, rainbowEffects, spawned, inputs>>

(***************************************************************************)
(* updateGame(), player cells against AI cells.  i is the AI cell and j    *)
(* the player cell, both scanned from the last one down.                   *)
(***************************************************************************)
\* an overlap test that skips identical centres
checkCollisionSkipsZero(cellA, cellB) ==
    /\ distance(cellA.x, cellB.x) # 0
    /\ Overlaps(distance(cellA.x, cellB.x), cellA.radius2, cellB.radius2)

checkCollision(cellA, cellB) ==
    Overlaps(distance(cellA.x, cellB.x), cellA.radius2, cellB.radius2)

\* a comparison that forgets the 10% margin
OutweighsNoMargin(big, small) == Less(small.mass, big.mass)

\* big.mass > small.mass * 1.1
Outweighs(big, small) == LessBy(11, small.mass, 10, big.mass)

\* the mass a body gains from a body it consumes: mass * 0.5
EatGain(eaten) == Half(eaten.mass)

\* what the AI cell gains from a player cell it consumes
AIEatsPlayerGain(eaten) == Num(0)

\* a test that fires one cell early
NoPlayerLeftOffByOne(cells) == Len(cells) <= 1

\* playerCells.length === 0
NoPlayerLeft(cells) == Len(cells) = 0

PlayerAIStep ==
    /\ pc = "playerAI"
    /\ IF i < 1
       THEN /\ pc' = AfterPhase(pc)
            /\ i' = 1
            /\ j' = 2
            /\ ev' = Ev("playerAIDone", NoCell, NoCell, NoFood)
            /\ UNCHANGED <<aiCells, playerCells, gameOver, spawned>>
       ELSE IF j < 1
       THEN /\ i' = i - 1
            /\ j' = Len(playerCells)
            /\ ev' = Ev("playerAINext", NoCell, NoCell, NoFood)
            /\ UNCHANGED <<aiCells, playerCells, gameOver, spawned, pc>>
       ELSE LET ai == aiCells[i]
                cell == playerCells[j]
            IN  /\ ev' = Ev("playerAI", cell, ai, NoFood)
                /\ UNCHANGED pc
                /\ IF checkCollision(cell, ai) /\ Outweighs(cell, ai)
                   THEN /\ spawned < MaxSpawned
                        /\ playerCells' = [playerCells EXCEPT ![j] = grow(cell, EatGain(ai))]
                        /\ \E new \in spawnAICell(now) :
                              aiCells' = PushAI(Splice(aiCells, i), new)
                        /\ spawned' = spawned + 1
                        /\ i' = i - 1
                        /\ j' = Len(playerCells)
                        /\ UNCHANGED gameOver
                   ELSE IF checkCollision(cell, ai) /\ Outweighs(ai, cell)
                   THEN /\ playerCells' = Splice(playerCells, j)
                        /\ aiCells' = [aiCells EXCEPT ![i] = grow(ai, AIEatsPlayerGain(cell))]
                        /\ gameOver' = (gameOver \/ NoPlayerLeft(Splice(playerCells, j)))
                        /\ i' = i - 1
                        /\ j' = Len(playerCells) - 1
                        /\ UNCHANGED spawned
                   ELSE /\ j' = j - 1
                        /\ UNCHANGED <<aiCells, playerCells, gameOver, spawned, i>>
    /\ UNCHANGED <<now, mouseDX, foods, hexagons, rainbowEffects, inputs>>

(***************************************************************************)
(* updateGame(), AI cells against AI cells.  i < j, both scanned upwards.  *)
(***************************************************************************)
\* an outer loop that does not advance
NextOuterStuck(k) == k

\* i++ of the outer loop
NextOuter(k) == k + 1

AIAIStep ==
    /\ pc = "aiAI"
    /\ IF i > Len(aiCells)
       THEN /\ pc' = AfterPhase(pc)
            /\ i' = 1
            /\ j' = Len(hexagons)
            /\ ev' = Ev("aiAIDone", NoCell, NoCell, NoFood)
            /\ UNCHANGED <<aiCells, spawned>>
       ELSE IF j > Len(aiCells)
       THEN /\ i' = NextOuter(i)
            /\ j' = NextOuter(i) + 1
            /\ ev' = Ev("aiAINext", NoCell, NoCell, NoFood)
            /\ UNCHANGED <<aiCells, spawned, pc>>
       ELSE LET cellA == aiCells[i]
                cellB == aiCells[j]
            IN  /\ ev' = Ev("aiAI", cellA, cellB, NoFood)
                /\ UNCHANGED pc
                /\ IF checkCollision(cellA, cellB) /\ Outweighs(cellA, cellB)
                   THEN /\ spawned < MaxSpawned
                        /\ \E new \in spawnAICell(now) :
                              aiCells' = PushAI(Splice([aiCells EXCEPT
                                             ![i] = grow(cellA, EatGain(cellB))], j), new)
                        /\ spawned' = spawned + 1
                        /\ UNCHANGED <<i, j>>
                   ELSE IF checkCollision(cellA, cellB) /\ Outweighs(cellB, cellA)
                   THEN /\ spawned < MaxSpawned
                        /\ \E new \in spawnAICell(now) :
                              aiCells' = PushAI(Splice([aiCells EXCEPT
                                             ![j] = grow(cellB, EatGain(cellA))], i), new)
                        /\ spawned' = spawned + 1
                        /\ j' = i + 1
                        /\ UNCHANGED i
                   ELSE /\ j' = j + 1
                        /\ UNCHANGED <<aiCells, spawned, i>>
    /\ UNCHANGED <<now, gameOver, mouseDX, foods, playerCells, hexagons,
                   rainbowEffects, inputs>>

(***************************************************************************)
(* updateGame(), player cells against hexagons.  i is the player cell, j   *)
(* the hexagon, scanned from the last one down.                            *)
(***************************************************************************)
\* a bonus without the multiplier
HexGainPlain(hex) == Num(hex.massBonus)

\* hex.massBonus * 1.5
HexGain(hex) == Half(Num(hex.massBonus * 3))

EatsHexagon(cell, hex) ==
    Overlaps(distance(cell.x, hex.x), cell.radius2, Num(hex.size * hex.size))

HexagonStep ==
    /\ pc = "hexagons"
    /\ IF i > Len(playerCells)
       THEN /\ pc' = AfterPhase(pc)
            /\ i' = 1
            /\ j' = 2
            /\ ev' = Ev("hexagonsDone", NoCell, NoCell, NoFood)
            /\ UNCHANGED <<playerCells, hexagons, rainbowEffects>>
       ELSE IF j < 1
       THEN /\ i' = i + 1
            /\ j' = Len(hexagons)
            /\ ev' = Ev("hexagonsNext", NoCell, NoCell, NoFood)
            /\ UNCHANGED <<playerCells, hexagons, rainbowEffects, pc>>
       ELSE LET cell == playerCells[i]
                hex == hexagons[j]
            IN  /\ IF EatsHexagon(cell, hex)
                   THEN /\ playerCells' = [playerCells EXCEPT ![i] = grow(cell, HexGain(hex))]
                        /\ rainbowEffects' = Append(rainbowEffects, RainbowEffect(hex.x))
                        /\ hexagons' = Splice(hexagons, j)
                   ELSE UNCHANGED <<playerCells, hexagons, rainbowEffects>>
                /\ j' = j - 1
                /\ ev' = Ev("hexagon", cell, NoCell, Food(hex.x, hex.size))
                /\ UNCHANGED <<pc, i>>
    /\ UNCHANGED <<now, gameOver, mouseDX, foods, aiCells, spawned, inputs>>

(***************************************************************************)
(* mergePlayerCells().  i < j, both scanned upwards; the time is read once *)
(* on entry.                                                               *)
(***************************************************************************)
\* a merge test that forgets the delay
MergeReadyNoDelay(cell, t) == t - cell.lastSplitTime > 0

\* now - cell.lastSplitTime > MERGE_DELAY
MergeReady(cell, t) == t - cell.lastSplitTime > MERGE_DELAY

\* the mass-weighted average of the two centres, in whole pixels
MergeX(cellA, cellB) ==
    LET e == Max(cellA.mass.e, cellB.mass.e)
        a == Scaled(cellA.mass, e)
        b == Scaled(cellB.mass, e)
    IN  (cellA.x * a + cellB.x * b) \div (a + b)

\* a merge that forgets the absorbed cell's mass
MergeMassKeepsA(cellA, cellB) == cellA.mass

MergeMass(cellA, cellB) == Plus(cellA.mass, cellB.mass)

\* a merge that leaves the survivor's lastSplitTime as it was
MergeCellsUnstamped(cellA, cellB, t) ==
    [cellA EXCEPT !.x = MergeX(cellA, cellB),
                  !.mass = MergeMass(cellA, cellB),
                  !.radius2 = MergeMass(cellA, cellB)]

MergeCells(cellA, cellB, t) ==
    [cellA EXCEPT !.x = MergeX(cellA, cellB),
                  !.mass = MergeMass(cellA, cellB),
                  !.radius2 = MergeMass(cellA, cellB),
                  !.lastSplitTime = t]

MergeStep ==
    /\ pc = "merge"
    /\ IF i > Len(playerCells)
       THEN /\ pc' = AfterPhase(pc)
            /\ i' = 0
            /\ j' = 0
            /\ ev' = Ev("mergeDone", NoCell, NoCell, NoFood)
            /\ UNCHANGED playerCells
       ELSE IF j > Len(playerCells)
       THEN /\ i' = i + 1
            /\ j' = i + 2
            /\ ev' = Ev("mergeNext", NoCell, NoCell, NoFood)
            /\ UNCHANGED <<playerCells, pc>>
       ELSE LET cellA == playerCells[i]
                cellB == playerCells[j]
            IN  /\ ev' = Ev("merge", cellA, cellB, NoFood)
                /\ UNCHANGED <<pc, i>>
                /\ IF /\ checkCollision(cellA, cellB)
                      /\ MergeReady(cellA, now)
                      /\ MergeReady(cellB, now)
                   THEN /\ playerCells' = Splice([playerCells EXCEPT
                                             ![i] = MergeCells(cellA, cellB, now)], j)
                        /\ UNCHANGED j
                   ELSE /\ j' = j + 1
                        /\ UNCHANGED playerCells
    /\ UNCHANGED <<now, gameOver, mouseDX, foods, aiCells, hexagons,
                   rainbowEffects, spawned, inputs>>

(***************************************************************************)
(* updateExtras(), which gameLoop() runs after updateGame().               *)
(***************************************************************************)
RECURSIVE AgeEffects(_)
AgeEffects(s) ==
    IF s = << >> THEN << >>
    ELSE LET e == [Head(s) EXCEPT !.lifetime = @ - ExtrasDelta]
         IN  IF e.lifetime <= 0 THEN AgeEffects(Tail(s))
             ELSE << e >> \o AgeEffects(Tail(s))

UpdateExtras ==
    /\ pc = "extras"
    /\ rainbowEffects' = AgeEffects(rainbowEffects)
    /\ pc' = "idle"
    /\ ev' = Ev("updateExtras", NoCell, NoCell, NoFood)
    /\ UNCHANGED <<now, gameOver, mouseDX, foods, aiCells, playerCells,
                   hexagons, i, j, spawned, inputs>>

(***************************************************************************)
(* click or touchend while gameOver: startGame().                          *)
(***************************************************************************)
StartGame ==
    /\ pc = "idle"
    /\ gameOver
    /\ inputs < MaxInputs
    /\ inputs' = inputs + 1
    /\ gameOver' = FALSE
    /\ foods' \in [1..FOOD_COUNT -> NewFoods]
    /\ aiCells' \in [1..AI_COUNT -> spawnAICell(now)]
    /\ playerCells' = initPlayer(now)
    /\ ev' = Ev("startGame", NoCell, NoCell, NoFood)
    /\ UNCHANGED <<now, mouseDX, hexagons, rainbowEffects, pc, i, j, spawned>>

Next ==
    \/ MouseMove
    \/ SplitKey
    \/ SplitStep
    \/ TickStart
    \/ BotAIStep
    \/ PlayerFoodStep
    \/ AIFoodStep
    \/ PlayerAIStep
    \/ AIAIStep
    \/ HexagonStep
    \/ MergeStep
    \/ UpdateExtras
    \/ StartGame

Spec == Init /\ [][Next]_vars

\* the frames alone, without input events: gameLoop() calling updateGame()
\* and updateExtras()
TickNext ==
    \/ TickStart
    \/ BotAIStep
    \/ PlayerFoodStep
    \/ AIFoodStep
    \/ PlayerAIStep
    \/ AIAIStep
    \/ HexagonStep
    \/ MergeStep
    \/ UpdateExtras

\* a frame that has started runs on: the engine takes every step of it
FairSpec == Init /\ [][TickNext]_vars /\ WF_vars(TickNext)

(***************************************************************************)
(* The split functions on their own: splitPlayerCells() and splitBot()     *)
(* applied to bodies as a caller can construct them, whatever their mass   *)
(* and number.                                                             *)
(***************************************************************************)
TestMasses == {30, 40, 80, 300}
TestCounts == {1, 2, 14, 15, 16}
TestVels == {-1, 2}
TestImpulses == {10, 20}

TestPlayers(n, m1, m2) ==
    [k \in 1..n |-> Cell(2400 + 20 * k, Num(IF k % 2 = 1 THEN m1 ELSE m2), TRUE, 0)]

TestBot(m, v, boss) ==
    [Cell(2600, Num(m), FALSE, 0) EXCEPT !.vx = v, !.isBoss = boss]

SplitInit ==
    /\ now = 0
    /\ gameOver = FALSE
    /\ mouseDX = 0
    /\ foods = << >>
    /\ \E m \in TestMasses, v \in TestVels, boss \in BOOLEAN :
          aiCells = << TestBot(m, v, boss) >>
    /\ \E n \in TestCounts, m1 \in TestMasses, m2 \in TestMasses :
          playerCells = TestPlayers(n, m1, m2)
    /\ hexagons = << >>
    /\ rainbowEffects = << >>
    /\ pc = "idle"
    /\ i = 0
    /\ j = 0
    /\ spawned = 0
    /\ inputs = 0
    /\ ev = [op |-> "test", a |-> NoCell, b |-> NoCell, f |-> NoFood,
             n |-> 0, flag |-> FALSE, i |-> 0, j |-> 0, t |-> 0,
             gameOver |-> FALSE, players |-> << >>, ais |-> << >>,
             foods |-> << >>, hexagons |-> << >>, effects |-> << >>]

\* splitBot(aiCells[k], impulse), called directly
SplitBotCall ==
    /\ pc = "idle"
    /\ inputs < MaxInputs
    /\ inputs' = inputs + 1
    /\ \E k \in 1..Len(aiCells), impulse \in TestImpulses :
          /\ aiCells' = splitBot(aiCells, k, impulse, now)
          /\ ev' = EvX("splitBot", aiCells[k], NoCell, NoFood, k, TRUE)
    /\ UNCHANGED <<now, gameOver, mouseDX, foods, playerCells, hexagons,
                   rainbowEffects, pc, i, j, spawned>>

SplitNext ==
    \/ MouseMove
    \/ SplitKey
    \/ SplitStep
    \/ SplitBotCall

SplitSpec == SplitInit /\ [][SplitNext]_vars

(***************************************************************************)
(* Properties.                                                             *)
(***************************************************************************)
\* the step just taken ran the body of the splitPlayerCells loop and changed
\* the player cells
PlayerSplitDone == ev.op = "splitCell" /\ playerCells # ev.players

\* the step just taken ran updateBotAI for a bot and the number of AI cells
\* changed
BotSplitDone == ev.op = "botAI" /\ Len(aiCells) # Len(ev.ais)

\* C1: after every successful split, by splitPlayerCells or by splitBot, the
\* parent's and the new body's masses add up to the parent's mass before the
\* split, and each of the two is exactly half of it.
C1_SplitConservesMass ==
    /\ PlayerSplitDone =>
          LET parent == playerCells[ev.i]
              child == playerCells[Len(playerCells)]
          IN  /\ Plus(parent.mass, child.mass) = ev.a.mass
              /\ Plus(parent.mass, parent.mass) = ev.a.mass
              /\ Plus(child.mass, child.mass) = ev.a.mass
    /\ BotSplitDone =>
          LET parent == aiCells[ev.i]
              child == aiCells[Len(aiCells)]
          IN  /\ Plus(parent.mass, child.mass) = ev.a.mass
              /\ Plus(parent.mass, parent.mass) = ev.a.mass
              /\ Plus(child.mass, child.mass) = ev.a.mass

\* a bot has just split, and the player had split before
C1_Witness == BotSplitDone /\ Len(playerCells) > 1

\* the step just taken examined a pair in mergePlayerCells and changed the
\* player cells
MergeDone == ev.op = "merge" /\ playerCells # ev.players

\* C2: after every merge the survivor's mass is the sum of the two masses,
\* its position is their mass-weighted average (to the pixel), its
\* lastSplitTime is the merge time, and the absorbed body, and nothing else,
\* has left the player cells.
C2_MergeSumsAndStamps ==
    MergeDone =>
      LET merged == playerCells[ev.i]
          e == Max(ev.a.mass.e, ev.b.mass.e)
          a == Scaled(ev.a.mass, e)
          b == Scaled(ev.b.mass, e)
          moment == ev.a.x * a + ev.b.x * b
      IN  /\ merged.mass = Plus(ev.a.mass, ev.b.mass)
          /\ merged.x * (a + b) <= moment
          /\ moment < (merged.x + 1) * (a + b)
          /\ merged.lastSplitTime = now
          /\ Len(playerCells) = Len(ev.players) - 1
          /\ playerCells = Splice([ev.players EXCEPT ![ev.i] = merged], ev.j)

\* two cells of different mass have just merged
C2_Witness == MergeDone /\ ev.a.mass # ev.b.mass

\* C3: a pair of player cells is not merged while now - lastSplitTime <=
\* MERGE_DELAY for either of them; a split stamps both of its bodies and a
\* merge stamps its survivor with the current time.
C3_NoMergeBeforeDelay ==
    /\ (/\ ev.op = "merge"
        /\ \/ now - ev.a.lastSplitTime <= MERGE_DELAY
           \/ now - ev.b.lastSplitTime <= MERGE_DELAY)
       => playerCells = ev.players
    /\ PlayerSplitDone =>
          /\ playerCells[ev.i].lastSplitTime = now
          /\ playerCells[Len(playerCells)].lastSplitTime = now
    /\ MergeDone => playerCells[ev.i].lastSplitTime = now

\* two overlapping player cells, one of them stamped less than MERGE_DELAY
\* ago, have just been examined by mergePlayerCells
C3_Witness ==
    /\ ev.op = "merge"
    /\ checkCollision(ev.a, ev.b)
    /\ now - ev.b.lastSplitTime <= MERGE_DELAY
    /\ now - ev.b.lastSplitTime > 0

\* the step just taken examined a player cell and an AI cell, or two AI cells
BodyPairStep == ev.op \in {"playerAI", "aiAI"}

\* C4: whenever a body consumes another body, the consumed body is removed
\* and the consumer's mass grows by exactly half of the consumed body's mass:
\* player cell over AI cell, AI cell over player cell, AI cell over AI cell.
C4_ConsumerGainsHalf ==
    /\ (ev.op = "playerAI" /\ Len(playerCells) < Len(ev.players)) =>
          aiCells[ev.i].mass = Plus(ev.b.mass, Half(ev.a.mass))
    /\ (ev.op = "playerAI" /\ aiCells # ev.ais /\ Len(playerCells) = Len(ev.players)) =>
          playerCells[ev.j].mass = Plus(ev.a.mass, Half(ev.b.mass))
    /\ (ev.op = "aiAI" /\ aiCells # ev.ais) =>
          IF Less(ev.b.mass, ev.a.mass)
          THEN aiCells[ev.i].mass = Plus(ev.a.mass, Half(ev.b.mass))
          ELSE aiCells[ev.j - 1].mass = Plus(ev.b.mass, Half(ev.a.mass))

\* neither mass exceeds the other by more than 10%
WithinTenPercent(a, b) ==
    /\ ~LessBy(11, a.mass, 10, b.mass)
    /\ ~LessBy(11, b.mass, 10, a.mass)

\* C5: an overlapping pair of bodies whose masses are within 10% of each
\* other is left as it was: no mass changes and no body is removed.
C5_NearEqualIsNoOp ==
    (BodyPairStep /\ WithinTenPercent(ev.a, ev.b)) =>
        /\ playerCells = ev.players
        /\ aiCells = ev.ais
        /\ gameOver = ev.gameOver

\* an overlapping pair of different masses within 10% has just been examined
C5_Witness ==
    /\ BodyPairStep
    /\ checkCollision(ev.a, ev.b)
    /\ WithinTenPercent(ev.a, ev.b)
    /\ ev.a.mass # ev.b.mass

\* the step just taken ran the body of the splitPlayerCells loop on ev.a
PlayerSplitTried == ev.op = "splitCell"

\* the step just taken called splitBot on ev.a
BotSplitTried == ev.op = "splitBot"

\* cells is before with the cell at k halved and stamped, and one more cell of
\* the same half mass at the end
HalvedAt(cells, before, k) ==
    /\ Len(cells) = Len(before) + 1
    /\ Plus(cells[k].mass, cells[k].mass) = before[k].mass
    /\ Plus(cells[Len(cells)].mass, cells[Len(cells)].mass) = before[k].mass
    /\ \A n \in 1..Len(before) : n # k => cells[n] = before[n]

\* C6 as claimed: with fewer than 16 player cells, a manual split of a player
\* cell of mass 40 or more succeeds and leaves two cells of half the mass.
C6_SplitRejectedOnlyBelow40 ==
    (PlayerSplitTried /\ ~Less(ev.a.mass, Num(40))) =>
        HalvedAt(playerCells, ev.players, ev.i)

\* C6 as amended: with fewer than 16 player cells, a manual split of a player
\* cell succeeds exactly when its mass is 80 or more, and splitBot succeeds
\* exactly when the bot's mass is 40 or more; a split that succeeds leaves
\* two cells of half the mass, one that is rejected leaves the cells as they
\* were.
C6_SplitRejectedOnlyBelowThreshold ==
    /\ PlayerSplitTried =>
          IF Less(ev.a.mass, Num(80))
          THEN playerCells = ev.players
          ELSE HalvedAt(playerCells, ev.players, ev.i)
    /\ BotSplitTried =>
          IF Less(ev.a.mass, Num(40))
          THEN aiCells = ev.ais
          ELSE HalvedAt(aiCells, ev.ais, ev.n)

\* a manual split has just halved a player cell of mass 80, after splitBot
\* had halved a bot of mass 40
C6_Witness ==
    /\ PlayerSplitTried
    /\ ev.a.mass = Num(80)
    /\ playerCells # ev.players
    /\ Len(aiCells) = 2
    /\ aiCells[2].mass = Num(20)

\* C7: a split attempted on a body of mass below 40 changes nothing: the
\* body keeps its mass, radius, position, impulse and lastSplitTime and no
\* collection gains a body, in splitPlayerCells and in splitBot.
C7_SmallSplitIsNoOp ==
    ((PlayerSplitTried \/ BotSplitTried) /\ Less(ev.a.mass, Num(40))) =>
        /\ playerCells = ev.players
        /\ aiCells = ev.ais
        /\ foods = ev.foods
        /\ hexagons = ev.hexagons

\* splitBot has just been called on a bot of mass 30, after a manual split
\* request had gone over a player cell of mass 30
C7_Witness ==
    /\ BotSplitTried
    /\ ev.a.mass = Num(30)
    /\ inputs = 2
    /\ pc = "idle"
    /\ playerCells[1].mass = Num(30)

\* C8: the player never has more than 16 cells: a split request made with
\* 16 cells ends at once and changes nothing, and the loop of a request made
\* with fewer ends as soon as there are 16, so that no cell is ever split
\* when there are 16.
C8_AtMostMaxCells ==
    /\ Len(playerCells) <= 16
    /\ PlayerSplitTried => Len(ev.players) < 16
    /\ (ev.op = "splitExit" /\ Len(ev.players) >= 16) => playerCells = ev.players
    /\ (ev.op = "splitExit" /\ Len(ev.players) < 16) => ev.i > ev.j

\* a split request made with fewer than 16 cells has just ended at 16 cells
\* with cells of splittable mass left unexamined
C8_Witness ==
    /\ ev.op = "splitExit"
    /\ ev.i > 1
    /\ ev.i <= ev.j
    /\ Len(playerCells) = 16
    /\ ~Less(ev.players[ev.i].mass, Num(80))

\* the passes of the collision resolver
ResolverPhases == {"playerFood", "aiFood", "playerAI", "aiAI", "hexagons"}

\* C9 as claimed: in each tick the resolver goes from the pellets to the
\* hexagons, then to the player cells against the AI cells, then to the AI
\* cells against each other, so that a hexagon's bonus is applied before the
\* margin checks of that tick.
C9_HexagonsBeforeBodies ==
    [][(pc \in ResolverPhases /\ pc' # pc) =>
          <<pc, pc'>> \in {<<"playerFood", "aiFood">>, <<"aiFood", "hexagons">>,
                           <<"hexagons", "playerAI">>, <<"playerAI", "aiAI">>,
                           <<"aiAI", "merge">>}]_vars

\* C9 as amended: in each tick the resolver goes from the pellets to the
\* player cells against the AI cells, then to the AI cells against each
\* other, and only then to the hexagons, which only player cells consume; a
\* hexagon's bonus is applied after the margin checks of that tick.
C9_HexagonsAfterBodies ==
    [][(pc \in ResolverPhases /\ pc' # pc) =>
          <<pc, pc'>> \in {<<"playerFood", "aiFood">>, <<"aiFood", "playerAI">>,
                           <<"playerAI", "aiAI">>, <<"aiAI", "hexagons">>,
                           <<"hexagons", "merge">>}]_vars

\* a player cell has just consumed a hexagon, and with the bonus it outweighs
\* an AI cell it overlaps and did not outweigh when the pair was examined
\* earlier in the tick
C9_Witness ==
    /\ ev.op = "hexagon"
    /\ hexagons # ev.hexagons
    /\ aiCells = ev.ais
    /\ \E k \in 1..Len(aiCells) :
          /\ checkCollision(ev.a, aiCells[k])
          /\ ~LessBy(11, aiCells[k].mass, 10, ev.a.mass)
          /\ LessBy(11, aiCells[k].mass, 10, playerCells[ev.i].mass)

\* the pair examined by the step just taken had identical centres
ZeroDistancePair ==
    \/ ev.op \in {"playerFood", "aiFood"} /\ distance(ev.a.x, ev.f.x) = 0
    \/ ev.op \in {"playerAI", "aiAI"} /\ distance(ev.a.x, ev.b.x) = 0
    \/ ev.op = "hexagon" /\ distance(ev.a.x, ev.f.x) = 0

\* op is neither more than 10% heavier nor more than 10% lighter than bot
NeitherDangerNorPrey(bot, op) ==
    /\ ~LessBy(11, bot.mass, 10, op.mass)
    /\ ~LessBy(10, op.mass, 9, bot.mass)

\* C10 as claimed: the resolver skips a pair with identical centres: nothing
\* is consumed, no mass changes and nothing is removed.
C10_ZeroDistanceSkipped ==
    ZeroDistancePair =>
        /\ playerCells = ev.players
        /\ aiCells = ev.ais
        /\ foods = ev.foods
        /\ hexagons = ev.hexagons

\* C10 as amended: the resolver treats a pair with identical centres as
\* overlapping: of two bodies, one that outweighs the other by more than 10%
\* consumes it, and a pellet is consumed by the cell on it; only the steering
\* scan skips an opponent at distance 0.
C10_ZeroDistanceOverlaps ==
    /\ (ev.op \in {"playerAI", "aiAI"} /\ distance(ev.a.x, ev.b.x) = 0) =>
          IF WithinTenPercent(ev.a, ev.b)
          THEN playerCells = ev.players /\ aiCells = ev.ais
          ELSE playerCells # ev.players \/ aiCells # ev.ais
    /\ (ev.op \in {"playerFood", "aiFood"} /\ distance(ev.a.x, ev.f.x) = 0) =>
          foods # ev.foods
    /\ (/\ ev.op = "botAI"
        /\ \A k \in 1..Len(ev.players) :
              ev.players[k].x = ev.a.x \/ NeitherDangerNorPrey(ev.a, ev.players[k])
        /\ \A n \in 1..Len(ev.ais) :
              ev.ais[n].x = ev.a.x \/ NeitherDangerNorPrey(ev.a, ev.ais[n])) =>
          ev.n = 0 /\ ~ev.flag

\* of two AI cells with identical centres, one has just consumed the other
C10_Witness ==
    /\ ev.op = "aiAI"
    /\ distance(ev.a.x, ev.b.x) = 0
    /\ aiCells # ev.ais

\* the step just taken removed an AI cell that a player cell or another AI
\* cell consumed
AgentConsumed ==
    \/ ev.op = "playerAI" /\ Outweighs(ev.a, ev.b) /\ checkCollision(ev.a, ev.b)
    \/ ev.op = "aiAI" /\ checkCollision(ev.a, ev.b) /\ ~WithinTenPercent(ev.a, ev.b)

\* C11: the step that removes a consumed AI cell also pushes exactly one
\* freshly spawned AI cell, before the next pair is examined; no step other
\* than startGame lowers the number of AI cells, and there are never fewer
\* than AI_COUNT of them.
C11_AgentsReplenished ==
    /\ Len(aiCells) >= AI_COUNT
    /\ ev.op # "startGame" => Len(aiCells) >= Len(ev.ais)
    /\ AgentConsumed =>
          /\ Len(aiCells) = Len(ev.ais)
          /\ aiCells[Len(aiCells)] \in spawnAICell(now)
          /\ \E k \in 1..Len(ev.ais) :
                \A n \in 1..(Len(ev.ais) - 1) :
                    LET before == Splice(ev.ais, k)[n] IN
                    /\ aiCells[n].x = before.x
                    /\ aiCells[n].lastSplitTime = before.lastSplitTime
                    /\ ~Less(aiCells[n].mass, before.mass)

\* an AI cell has just consumed another, the second consumption of an AI cell
\* in the run
C11_Witness ==
    /\ AgentConsumed
    /\ ev.op = "aiAI"
    /\ spawned = 2

\* C12: the step that consumes a pellet or a hexagon also spawns its
\* replacement, so that no step of a tick changes the number of pellets plus
\* the number of hexagons.
C12_FoodReplenished ==
    ev.op \notin {"startGame", "test"} =>
        Len(foods) + Len(hexagons) = Len(ev.foods) + Len(ev.hexagons)

\* C13: gameOver is true exactly when there is no player cell, and from a
\* tick boundary where gameOver is true nothing changes the pellets, the AI
\* cells, the hexagons or the player cells until startGame runs.
C13_GameOverIffNoPlayer ==
    /\ [](gameOver <=> Len(playerCells) = 0)
    /\ [][(gameOver /\ pc = "idle" /\ gameOver') =>
            UNCHANGED <<foods, aiCells, hexagons, playerCells>>]_vars

\* the last player cell has been consumed, the tick has ended, and a split
\* request has since been handled
C13_Witness ==
    /\ gameOver
    /\ pc = "idle"
    /\ Len(playerCells) = 0
    /\ ev.op = "splitExit"

\* the step just taken ran the body of the updateBotAI loop on the bot ev.a
BotScanned == ev.op = "botAI"

\* the opponents of the bot just scanned: the player cells, then the other
\* AI cells
ScannedOpponents == ev.players \o Splice(ev.ais, ev.i)

\* op is more than 10% heavier than bot and less than 300 away
Threatens(op, bot) ==
    /\ LessBy(11, bot.mass, 10, op.mass)
    /\ Abs(op.x - bot.x) < 300

\* op is more than 10% lighter than bot and less than 400 away, or 600 for a
\* boss
Tempts(op, bot) ==
    /\ LessBy(10, op.mass, 9, bot.mass)
    /\ Abs(op.x - bot.x) < (IF bot.isBoss THEN 600 ELSE 400)

\* the pull of op on bot along the line: -1 or +1 away from a threat, towards
\* a prey
Pull(op, bot) ==
    IF op.x = bot.x THEN 0
    ELSE LET u == IF op.x > bot.x THEN 1 ELSE -1
         IN  (IF Threatens(op, bot) THEN -u ELSE 0) + (IF Tempts(op, bot) THEN u ELSE 0)

RECURSIVE TotalPull(_, _, _)
TotalPull(ops, bot, k) ==
    IF k = 0 THEN 0 ELSE Pull(ops[k], bot) + TotalPull(ops, bot, k - 1)

\* C14 as claimed: whenever a flee or chase contribution was accumulated, the
\* velocity written has the magnitude of the chosen speed and is never zero.
C14_SteeringIsUnit ==
    (BotScanned /\ ev.n > 0) => Abs(aiCells[ev.i].vx) \in SteerSpeeds

\* C14 as amended: whenever a flee or chase contribution was accumulated, the
\* velocity written has the magnitude of the chosen speed and the direction
\* of the summed contributions, unless they cancel exactly: then the
\* velocity written is zero.
C14_SteeringIsUnitOrZero ==
    (BotScanned /\ ev.n > 0) =>
        LET vx == aiCells[ev.i].vx
            total == TotalPull(ScannedOpponents, ev.a, Len(ScannedOpponents))
        IN  /\ vx = 0 \/ Abs(vx) \in SteerSpeeds
            /\ ~ev.flag =>
                  /\ vx = 0 <=> total = 0
                  /\ vx > 0 <=> total > 0

\* two contributions in the same direction have just been averaged and
\* normalised
C14_Witness ==
    /\ BotScanned
    /\ ev.n = 2
    /\ ~ev.flag
    /\ Abs(TotalPull(ScannedOpponents, ev.a, Len(ScannedOpponents))) = 2

\* no opponent of the bot just scanned is a threat or a prey within range
NoStimulus ==
    \A k \in 1..Len(ScannedOpponents) :
        /\ ~Threatens(ScannedOpponents[k], ev.a)
        /\ ~Tempts(ScannedOpponents[k], ev.a)

\* C15: when no opponent of a bot satisfies the flee condition or the chase
\* condition, updateBotAI leaves the bot's velocity, mass and lastSplitTime as
\* they were and splits nothing.
C15_NoStimulusNoChange ==
    (BotScanned /\ NoStimulus) =>
        /\ aiCells[ev.i].vx = ev.a.vx
        /\ aiCells[ev.i].mass = ev.a.mass
        /\ aiCells[ev.i].lastSplitTime = ev.a.lastSplitTime
        /\ aiCells = ev.ais
        /\ ~ev.flag

\* a moving bot whose opponents are all within 10% of its mass, one of them
\* heavier, has just been scanned
C15_Witness ==
    /\ BotScanned
    /\ NoStimulus
    /\ ev.a.vx # 0
    /\ \E k \in 1..Len(ScannedOpponents) :
          /\ Less(ev.a.mass, ScannedOpponents[k].mass)
          /\ ScannedOpponents[k].x # ev.a.x

\* op is small and near enough for bot to split at it: mass below a third of
\* the bot's, or below 0.45 of a boss's, at a distance between 0 and 150
SplitTarget(op, bot) ==
    /\ IF bot.isBoss THEN LessBy(20, op.mass, 9, bot.mass)
                     ELSE LessBy(3, op.mass, 1, bot.mass)
    /\ Abs(op.x - bot.x) > 0
    /\ Abs(op.x - bot.x) < 150

\* C16: updateBotAI splits a bot only if more than 2500 ms have passed since
\* its lastSplitTime and one of its opponents is a split target; a split adds
\* one cell and stamps both cells with the current time, so that neither is
\* split again in the tick, and no bot stamped 2500 ms ago or less, freshly
\* spawned ones included, is split.
C16_BotSplitNeedsCooldown ==
    /\ BotSplitDone =>
          /\ now - ev.a.lastSplitTime > 2500
          /\ \E k \in 1..Len(ScannedOpponents) : SplitTarget(ScannedOpponents[k], ev.a)
          /\ Len(aiCells) = Len(ev.ais) + 1
          /\ aiCells[ev.i].lastSplitTime = now
          /\ aiCells[Len(aiCells)].lastSplitTime = now
    /\ (BotScanned /\ now - ev.a.lastSplitTime <= 2500) =>
          /\ Len(aiCells) = Len(ev.ais)
          /\ aiCells[ev.i].mass = ev.a.mass
          /\ ~ev.flag

\* the cell a bot split produced earlier in the tick has just been scanned,
\* within split range of a target, and has not split
C16_Witness ==
    /\ BotScanned
    /\ ev.a.lastSplitTime = now
    /\ now > 0
    /\ \E k \in 1..Len(ScannedOpponents) : SplitTarget(ScannedOpponents[k], ev.a)
    /\ Len(aiCells) = Len(ev.ais)

\* the cell and the hexagon overlap: distance < radius + size
OnHexagon(cell, hex) == Overlaps(Abs(cell.x - hex.x), cell.radius2, Num(hex.size * hex.size))

\* C17 as claimed: a hexagon that a body overlaps, player cell or AI cell, is
\* consumed in the tick: when the hexagon pass ends, no AI cell and no player
\* cell as it was examined is left on a hexagon.
C17_AnyBodyConsumesHexagon ==
    /\ ev.op = "hexagon" /\ OnHexagon(ev.a, [x |-> ev.f.x, size |-> ev.f.radius]) =>
          Len(hexagons) = Len(ev.hexagons) - 1
    /\ ev.op = "hexagonsDone" =>
          \A k \in 1..Len(aiCells), h \in 1..Len(hexagons) :
              ~OnHexagon(aiCells[k], hexagons[h])

\* C17 as amended: a hexagon that a player cell overlaps when the pair is
\* examined is removed, the cell's mass grows by size squared times 1.5 and
\* one rainbow effect is appended at the hexagon; a pair that does not
\* overlap changes nothing, and an AI cell gains nothing from a hexagon.
C17_PlayerConsumesHexagon ==
    ev.op = "hexagon" =>
        /\ aiCells = ev.ais
        /\ IF OnHexagon(ev.a, [x |-> ev.f.x, size |-> ev.f.radius])
           THEN /\ hexagons = Splice(ev.hexagons, ev.j)
                /\ playerCells[ev.i].mass =
                      Plus(ev.a.mass, Half(Num(3 * ev.f.radius * ev.f.radius)))
                /\ rainbowEffects = Append(ev.effects, [x |-> ev.f.x, lifetime |-> 1000])
                /\ \A k \in 1..Len(playerCells) : k # ev.i => playerCells[k] = ev.players[k]
           ELSE /\ hexagons = ev.hexagons
                /\ playerCells = ev.players
                /\ rainbowEffects = ev.effects

\* a player cell has just consumed a hexagon that an AI cell overlaps too
C17_Witness ==
    /\ ev.op = "hexagon"
    /\ hexagons # ev.hexagons
    /\ \E k \in 1..Len(aiCells) :
          OnHexagon(aiCells[k], [x |-> ev.f.x, size |-> ev.f.radius])

\* the step just taken examined the cell ev.a and the pellet ev.f
PelletExamined == ev.op \in {"playerFood", "aiFood"}

\* the cell and the pellet overlap: distance < radius + radius
OnPellet(cell, f) == Overlaps(Abs(cell.x - f.x), cell.radius2, Num(f.radius * f.radius))

\* cells is before with the mass of the cell at k grown by radius squared
\* times 0.5 and nothing else changed
OnlyGrewAt(cells, before, k, radius) ==
    /\ Len(cells) = Len(before)
    /\ cells[k].mass = Plus(before[k].mass, Half(Num(radius * radius)))
    /\ cells[k].x = before[k].x
    /\ \A n \in 1..Len(before) : n # k => cells[n] = before[n]

\* C18: a pellet that a cell overlaps when the pair is examined is removed
\* from the pellets, that cell alone gains mass, and it gains exactly the
\* pellet's radius squared times 0.5; a pair that does not overlap changes
\* nothing.
C18_PelletAbsorbed ==
    PelletExamined =>
        IF OnPellet(ev.a, ev.f)
        THEN /\ \/ foods = Splice(ev.foods, ev.j)
                \/ /\ Len(foods) = Len(ev.foods)
                   /\ SubSeq(foods, 1, Len(foods) - 1) = Splice(ev.foods, ev.j)
             /\ IF ev.op = "playerFood"
                THEN /\ OnlyGrewAt(playerCells, ev.players, ev.i, ev.f.radius)
                     /\ aiCells = ev.ais
                ELSE /\ OnlyGrewAt(aiCells, ev.ais, ev.i, ev.f.radius)
                     /\ playerCells = ev.players
        ELSE /\ foods = ev.foods
             /\ playerCells = ev.players
             /\ aiCells = ev.ais

\* an AI cell has just absorbed a pellet that a player cell overlaps too
C18_Witness ==
    /\ ev.op = "aiFood"
    /\ OnPellet(ev.a, ev.f)
    /\ \E k \in 1..Len(playerCells) : OnPellet(playerCells[k], ev.f)

\* the opponent at k is the only one of the bot just scanned that is a
\* threat or a prey within range, and it is a threat at a distance above 0
OnlyThreat(k) ==
    /\ Threatens(ScannedOpponents[k], ev.a)
    /\ ScannedOpponents[k].x # ev.a.x
    /\ \A n \in 1..Len(ScannedOpponents) :
          n # k => /\ ~Threatens(ScannedOpponents[n], ev.a)
                   /\ ~Tempts(ScannedOpponents[n], ev.a)

\* C19: when the only opponent within sensing range of a bot is more than 10%
\* heavier and at a distance between 0 and 300, the velocity updateBotAI
\* writes points away from it: its component towards the opponent is
\* strictly negative.
C19_FleesOnlyThreat ==
    BotScanned =>
        \A k \in 1..Len(ScannedOpponents) :
            OnlyThreat(k) =>
                aiCells[ev.i].vx * (ScannedOpponents[k].x - ev.a.x) < 0

\* a bot that was moving towards its only threat has just been scanned
C19_Witness ==
    /\ BotScanned
    /\ \E k \in 1..Len(ScannedOpponents) :
          /\ OnlyThreat(k)
          /\ ev.a.vx * (ScannedOpponents[k].x - ev.a.x) > 0

\* a tick is under way
InTick == pc \notin {"idle", "split"}

\* the pair about to be examined ends in a consumption of an AI cell, and
\* the run has used up the replacement spawns it is allowed
SpawnBoundReached ==
    /\ spawned >= MaxSpawned
    /\ \/ /\ pc = "playerAI"
          /\ i \in 1..Len(aiCells)
          /\ j \in 1..Len(playerCells)
          /\ checkCollision(playerCells[j], aiCells[i])
          /\ Outweighs(playerCells[j], aiCells[i])
       \/ /\ pc = "aiAI"
          /\ i \in 1..Len(aiCells)
          /\ j \in 1..Len(aiCells)
          /\ checkCollision(aiCells[i], aiCells[j])
          /\ Outweighs(aiCells[i], aiCells[j]) \/ Outweighs(aiCells[j], aiCells[i])

LiveBodies ==
    {playerCells[k] : k \in 1..Len(playerCells)} \cup
    {aiCells[k] : k \in 1..Len(aiCells)}

\* C21: in every reachable state, every live body has a mass above zero and a
\* radius that is the square root of its mass (radius * radius = mass): the
\* constructor, grow, both splits and the merge write the two fields together,
\* and nothing writes the radius alone.
C21_RadiusFollowsMass ==
    \A c \in LiveBodies : c.mass.n > 0 /\ c.radius2 = c.mass

\* a merge has just produced a body whose radius and mass are both the sum,
\* while an agent whose mass has changed since it spawned is live beside it
C21_Witness ==
    /\ MergeDone
    /\ playerCells[ev.i].radius2 = Plus(ev.a.mass, ev.b.mass)
    /\ \E k \in 1..Len(aiCells) :
          \A d \in NormalDraws \cup BossDraws : aiCells[k].mass # Num(d[2] * d[2])

\* ---------------------------------------------------------------------------
\* C22

\* the sequence s with its k-th element taken out
Without(s, k) == [n \in 1..(Len(s) - 1) |-> IF n < k THEN s[n] ELSE s[n + 1]]

\* all of a sequence but its last element
Front(s) == SubSeq(s, 1, Len(s) - 1)

Credited(cell, eaten) ==
    [cell EXCEPT !.mass = Plus(cell.mass, Half(eaten.mass)),
                 !.radius2 = Plus(cell.mass, Half(eaten.mass))]

PlayerAteAgent == ev.op = "playerAI" /\ checkCollision(ev.a, ev.b) /\ Outweighs(ev.a, ev.b)
AgentAtePlayer == ev.op = "playerAI" /\ checkCollision(ev.a, ev.b) /\ Outweighs(ev.b, ev.a)
AgentAteLater == ev.op = "aiAI" /\ checkCollision(ev.a, ev.b) /\ Outweighs(ev.a, ev.b)
AgentAteEarlier == ev.op = "aiAI" /\ checkCollision(ev.a, ev.b) /\ Outweighs(ev.b, ev.a)

\* C22: a body removed in one collision pass is out of the collections from
\* that step on, so no later pass of the tick can examine it.  The step in
\* which a player cell consumes an agent leaves the agents as they were with
\* exactly that agent taken out (and the respawn pushed behind), and credits
\* exactly the consuming cell, once; the step in which an agent consumes a
\* player cell leaves the player cells as they were with exactly that cell
\* taken out; the agent-agent steps take out exactly the consumed agent and
\* credit exactly the consumer, once.  The bodies the agent-agent pass, the
\* structure pass and the merge pass examine are the live elements at their
\* loop indices.
C22_RemovedStaysOut ==
    /\ PlayerAteAgent =>
          /\ Front(aiCells) = Without(ev.ais, ev.i)
          /\ playerCells = [ev.players EXCEPT ![ev.j] = Credited(ev.a, ev.b)]
    /\ AgentAtePlayer =>
          /\ playerCells = Without(ev.players, ev.j)
          /\ aiCells = ev.ais
    /\ AgentAteLater =>
          Front(aiCells) = Without([ev.ais EXCEPT ![ev.i] = Credited(ev.a, ev.b)], ev.j)
    /\ AgentAteEarlier =>
          Front(aiCells) = Without([ev.ais EXCEPT ![ev.j] = Credited(ev.b, ev.a)], ev.i)
    /\ ev.op = "aiAI" => ev.a = ev.ais[ev.i] /\ ev.b = ev.ais[ev.j]
    /\ ev.op = "hexagon" => ev.a = ev.players[ev.i]
    /\ ev.op = "merge" => ev.a = ev.players[ev.i] /\ ev.b = ev.players[ev.j]

\* an agent has consumed one of several player cells, not the last of the
\* list, and the others stay for the later passes
C22_Witness ==
    /\ AgentAtePlayer
    /\ ev.j < Len(ev.players)
    /\ Len(playerCells) >= 1

\* ---------------------------------------------------------------------------
\* C23

\* C23 as claimed: the player-agent pass tests every pair of bodies that
\* outlive it, so when the pass ends no agent that was in the list when the
\* tick began still overlaps a player cell it exceeds by the 10% margin: an
\* agent over several such cells has consumed all of them.
C23_NoPairSkipped ==
    ev.op = "playerAIDone" =>
        \A k \in 1..Len(aiCells) : \A n \in 1..Len(playerCells) :
            aiCells[k].lastSplitTime < now =>
                ~(checkCollision(playerCells[n], aiCells[k])
                  /\ Outweighs(aiCells[k], playerCells[n]))

\* ---------------------------------------------------------------------------
\* C24

\* a player cell stamped with the time of the running merge pass: splits
\* happen between frames and every frame advances the clock, so within the
\* pass only the survivor of one of its merges carries this stamp
SurvivorOfThisPass(cell) == cell.lastSplitTime = ev.t

\* C24: within one call of mergePlayerCells a surviving cell absorbs at most
\* one other cell.  The two cells of every merge were stamped more than
\* MERGE_DELAY before the pass, so neither is the survivor of a merge of this
\* pass; the merge stamps the survivor with the time of the pass; and a pair
\* that holds a survivor of this pass is left alone, overlapping or not,
\* whatever the age of the other cell.  The survivor's stamp keeps it out of
\* every merge until more than MERGE_DELAY has passed again.
C24_OneAbsorptionPerPass ==
    /\ MergeDone =>
          /\ ev.t - ev.a.lastSplitTime > MERGE_DELAY
          /\ ev.t - ev.b.lastSplitTime > MERGE_DELAY
          /\ ~SurvivorOfThisPass(ev.a)
          /\ ~SurvivorOfThisPass(ev.b)
          /\ SurvivorOfThisPass(playerCells[ev.i])
          /\ Len(playerCells) = Len(ev.players) - 1
    /\ (ev.op = "merge" /\ (SurvivorOfThisPass(ev.a) \/ SurvivorOfThisPass(ev.b)))
          => playerCells = ev.players

\* three cells past the delay overlapped one another: two have merged in this
\* pass, and the survivor has just been examined against the third, which
\* overlaps it and is itself past the delay, without merging
C24_Witness ==
    /\ ev.op = "merge"
    /\ SurvivorOfThisPass(ev.a)
    /\ Overlaps(Abs(ev.a.x - ev.b.x), ev.a.radius2, ev.b.radius2)
    /\ ev.t - ev.b.lastSplitTime > MERGE_DELAY
    /\ playerCells = ev.players

\* ---------------------------------------------------------------------------
\* C25

\* C25: startGame() leaves gameOver false, FOOD_COUNT pellets, AI_COUNT
\* agents and exactly one player cell of radius 20 (mass 400) at the centre of
\* the map, and leaves the hexagons and the rainbow effects exactly as they
\* were before it.
C25_RestartKeepsStructures ==
    ev.op = "startGame" =>
        /\ ~gameOver
        /\ Len(foods) = FOOD_COUNT
        /\ Len(aiCells) = AI_COUNT
        /\ Len(playerCells) = 1
        /\ playerCells[1].isPlayer
        /\ playerCells[1].x = MAP_WIDTH \div 2
        /\ playerCells[1].radius2 = Num(PlayerStartRadius * PlayerStartRadius)
        /\ playerCells[1].mass = Num(PlayerStartRadius * PlayerStartRadius)
        /\ hexagons = ev.hexagons
        /\ rainbowEffects = ev.effects

\* the game has just been restarted after a game over, and a hexagon spawned
\* in the game before is still in the list, under the new player cell
C25_Witness ==
    /\ ev.op = "startGame"
    /\ ev.gameOver
    /\ Len(ev.hexagons) > 0
    /\ \E k \in 1..Len(hexagons) : OnHexagon(playerCells[1], hexagons[k])

====
